---- MODULE Spec2Model ----
(***************************************************************************)
(* Model of the UART 1 driver of scalog (src/src/uart_print.c): the        *)
(* interrupt-driven receive buffer shared by USART1_IRQHandler and         *)
(* uart_read, the reset of that buffer, the boot sequence uart_init, and   *)
(* the blocking transmit path uart_write / uart_write_byte /               *)
(* uart_write_msg.                                                         *)
(*                                                                         *)
(* The main program is one thread of control whose position is pc; each    *)
(* value of pc is named after the source line it is about to execute.      *)
(* The interrupt handler preempts the main program between any two of its  *)
(* steps whenever the USART1 interrupt is enabled in the NVIC, and runs to *)
(* completion (the main program cannot preempt it).                        *)
(*                                                                         *)
(* Pointers are addresses: NULL is 0 and s_uart_rx_buf occupies the        *)
(* addresses BufBase .. BufBase + UART_RX_BUF_SZ - 1.                      *)
(***************************************************************************)
EXTENDS Integers, Sequences, FiniteSets, TLC

\* ---------------------------------------------------------------- bounds

\* size of s_uart_rx_buf (1024 in the source, scaled down)
UART_RX_BUF_SZ == 2

\* received data bytes are 0 .. MaxByte
MaxByte == 1

\* largest bytes_req passed to uart_read
MaxReq == 3

\* longest buffer / string passed to uart_write / uart_write_msg
MaxLen == 2

\* ------------------------------------------------------------- constants

\* address of s_uart_rx_buf[ 0 ]
BufBase == 64

NULL == 0

\* uint16_t arithmetic
U16 == 65536

\* error codes of uart_print.h, returned through the uint16_t result
ERR_UART_RX_BUF_FULL == 65535

ERR_UART_OVERRUN == 65534

LF == 10

CR == 13

Byte == 0 .. MaxByte

\* content of a caller's buffer cell that uart_read has not written
Unset == -1

\* characters of a message: NUL and two printable characters
Chars == {0, 65, 66}

\* ------------------------------------------------------------------ state

VARIABLES
    s_uart_rx_buf,       \* [0 .. UART_RX_BUF_SZ-1 -> Byte], the static array
    s_uart_rx_buf_data,  \* the uart_irq_buf_type record
    irq_enabled,         \* USART1_IRQn enabled in the NVIC
    pc,                  \* position of the main program
    bytes_req,           \* uart_read: argument
    bytes_ret,           \* uart_read: local
    bytes_rem,           \* uart_read: local
    dst,                 \* uart_read: the caller's buffer
    ret,                 \* result of the last call that returned
    rst_ret,             \* uart_irq_buf_reset: where it returns to
    wbuf,                \* uart_write: buf (for uart_write_msg: msg)
    wbytes,              \* uart_write: bytes
    wi,                  \* uart_write: i
    w_ret,               \* uart_write: where it returns to
    wb_byte,             \* uart_write_byte: byte
    wb_ret,              \* uart_write_byte: where it returns to
    txe,                 \* hardware: USART_FLAG_TXE
    sent,                \* hardware: bytes handed to USART_SendData by the
                         \* current top-level transmit call, in order
    unread,              \* history: the bytes the handler accepted and no
                         \* read has returned nor a reset or boot discarded,
                         \* in arrival order
    taken,               \* history: the oldest bytes_ret bytes of unread, which
                         \* the current uart_read removed from the buffer
    pre,                 \* history: buffer state (and drained) on entry to the
                         \* critical section of the current uart_read
    call_full,           \* history: error_rx_full when uart_read was called
    drained,             \* history: a read emptied the buffer and the
                         \* handler has not been invoked since
    boot_rx              \* history: the handler took a byte during uart_init

vars == <<s_uart_rx_buf, s_uart_rx_buf_data, irq_enabled, pc, bytes_req,
          bytes_ret, bytes_rem, dst, ret, rst_ret, wbuf, wbytes, wi, w_ret,
          wb_byte, wb_ret, txe, sent, unread, taken, pre, call_full,
          drained, boot_rx>>

rxVars == <<s_uart_rx_buf, s_uart_rx_buf_data>>

readLocals == <<bytes_req, bytes_ret, bytes_rem, dst, rst_ret>>

writeLocals == <<wbuf, wbytes, wi, w_ret, wb_byte, wb_ret>>

hist == <<unread, taken, pre, call_full, drained, boot_rx>>

\* ---------------------------------------------------------------- helpers

Min(a, b) == IF a <= b THEN a ELSE b

InBuf(addr) == addr >= BufBase /\ addr < BufBase + UART_RX_BUF_SZ

\* the byte at an address (0 outside s_uart_rx_buf: never read there)
Load(mem, addr) == IF InBuf(addr) THEN mem[addr - BufBase] ELSE 0

NoPre ==
    [buf |-> [k \in 0 .. UART_RX_BUF_SZ - 1 |-> 0], num |-> 0, cur |-> NULL,
     drained |-> FALSE]

NoDst == [k \in 0 .. MaxReq - 1 |-> Unset]

\* the pc values of uart_init
BootPc == {"init_68", "irq_369", "irq_379", "irq_384", "irq_385", "irq_386",
           "irq_387", "irq_388", "irq_389"}

\* ------------------------------------------------------------------- Init

\* State at reset: statics are zero-initialised, the NVIC has the USART1
\* interrupt disabled, the transmit data register is empty (TXE is set at
\* reset), main is about to call uart_init.
Init ==
    /\ s_uart_rx_buf = [k \in 0 .. UART_RX_BUF_SZ - 1 |-> 0]
    /\ s_uart_rx_buf_data = [buf_ptr_start |-> NULL, buf_ptr_cur |-> NULL,
                             buf_sz |-> 0, num_bytes |-> 0,
                             error_rx_full |-> FALSE, error_overrun |-> FALSE]
    /\ irq_enabled = FALSE
    /\ pc = "init_68"
    /\ bytes_req = 0 /\ bytes_ret = 0 /\ bytes_rem = 0
    /\ dst = NoDst
    /\ ret = 0
    /\ rst_ret = "none"
    /\ wbuf = <<>> /\ wbytes = 0 /\ wi = 0 /\ w_ret = "none"
    /\ wb_byte = 0 /\ wb_ret = "none"
    /\ txe = TRUE
    /\ sent = <<>>
    /\ unread = <<>>
    /\ taken = <<>>
    /\ pre = NoPre
    /\ call_full = FALSE
    /\ drained = FALSE
    /\ boot_rx = FALSE

\* -------------------------------------------------------------- uart_init

\* uart_setup_clock, uart_setup_gpio, uart_setup_periph: no driver state
uart_setup_hw ==
    /\ pc = "init_68"
    /\ pc' = "irq_369"
    /\ UNCHANGED <<rxVars, irq_enabled, readLocals, ret, writeLocals, txe,
                   sent, hist>>

\* USART_ITConfig( USART1, USART_IT_RXNE, ENABLE )
uart_setup_irq_369 ==
    /\ pc = "irq_369"
    /\ pc' = "irq_379"
    /\ UNCHANGED <<rxVars, irq_enabled, readLocals, ret, writeLocals, txe,
                   sent, hist>>

\* NVIC_Init with NVIC_IRQChannelCmd = ENABLE
uart_setup_irq_379 ==
    /\ pc = "irq_379"
    /\ irq_enabled' = TRUE
    /\ pc' = "irq_384"
    /\ UNCHANGED <<rxVars, readLocals, ret, writeLocals, txe, sent, hist>>

uart_setup_irq_384 ==
    /\ pc = "irq_384"
    /\ s_uart_rx_buf_data' = [s_uart_rx_buf_data EXCEPT !.buf_sz = UART_RX_BUF_SZ]
    /\ pc' = "irq_385"
    /\ UNCHANGED <<s_uart_rx_buf, irq_enabled, readLocals, ret, writeLocals,
                   txe, sent, hist>>

\* num_bytes = 0 discards whatever the handler counted so far
uart_setup_irq_385 ==
    /\ pc = "irq_385"
    /\ s_uart_rx_buf_data' = [s_uart_rx_buf_data EXCEPT !.num_bytes = 0]
    /\ unread' = <<>>
    /\ pc' = "irq_386"
    /\ UNCHANGED <<s_uart_rx_buf, irq_enabled, readLocals, ret, writeLocals,
                   txe, sent, taken, pre, call_full, drained, boot_rx>>

uart_setup_irq_386 ==
    /\ pc = "irq_386"
    /\ s_uart_rx_buf_data' = [s_uart_rx_buf_data EXCEPT !.buf_ptr_start = BufBase]
    /\ pc' = "irq_387"
    /\ UNCHANGED <<s_uart_rx_buf, irq_enabled, readLocals, ret, writeLocals,
                   txe, sent, hist>>

uart_setup_irq_387 ==
    /\ pc = "irq_387"
    /\ s_uart_rx_buf_data' = [s_uart_rx_buf_data EXCEPT !.buf_ptr_cur = BufBase]
    /\ pc' = "irq_388"
    /\ UNCHANGED <<s_uart_rx_buf, irq_enabled, readLocals, ret, writeLocals,
                   txe, sent, hist>>

uart_setup_irq_388 ==
    /\ pc = "irq_388"
    /\ s_uart_rx_buf_data' = [s_uart_rx_buf_data EXCEPT !.error_rx_full = FALSE]
    /\ pc' = "irq_389"
    /\ UNCHANGED <<s_uart_rx_buf, irq_enabled, readLocals, ret, writeLocals,
                   txe, sent, hist>>

\* the last statement of uart_setup_irq; uart_init returns to main
uart_setup_irq_389 ==
    /\ pc = "irq_389"
    /\ s_uart_rx_buf_data' = [s_uart_rx_buf_data EXCEPT !.error_overrun = FALSE]
    /\ pc' = "idle"
    /\ UNCHANGED <<s_uart_rx_buf, irq_enabled, readLocals, ret, writeLocals,
                   txe, sent, hist>>

uart_init ==
    \/ uart_setup_hw
    \/ uart_setup_irq_369
    \/ uart_setup_irq_379
    \/ uart_setup_irq_384
    \/ uart_setup_irq_385
    \/ uart_setup_irq_386
    \/ uart_setup_irq_387
    \/ uart_setup_irq_388
    \/ uart_setup_irq_389

\* ------------------------------------------------------ USART1_IRQHandler

\* variant: the dropped byte is counted
IrqRxFull_counts(d) ==
    [d EXCEPT !.error_rx_full = TRUE, !.num_bytes = (d.num_bytes + 1) % U16]

\* variant: the other error flag is raised
IrqRxFull_overrun(d) == [d EXCEPT !.error_overrun = TRUE]

\* the buffer-full branch (line 248)
IrqRxFull(d) == [d EXCEPT !.error_rx_full = TRUE]

\* the bookkeeping of the receive branch (lines 260 and 265)
IrqRxAdvance(d) ==
    [d EXCEPT !.buf_ptr_cur = d.buf_ptr_cur + 1,
              !.num_bytes = (d.num_bytes + 1) % U16]

\* *s_uart_rx_buf_data.buf_ptr_cur = data (line 255), for a cursor inside
\* s_uart_rx_buf
IrqRxStore(mem, d, data) == [mem EXCEPT ![d.buf_ptr_cur - BufBase] = data]

\* One invocation of the handler. it_rxne is the result of
\* USART_GetITStatus( USART1, USART_IT_RXNE ) != RESET, data the result of
\* USART_ReceiveData. A store through a cursor that does not point into
\* s_uart_rx_buf is undefined: either the store has no effect on the
\* driver's memory and execution goes on, or the processor faults.
USART1_IRQHandler(it_rxne, data) ==
    /\ irq_enabled
    /\ pc # "fault"
    /\ drained' = FALSE
    /\ IF ~it_rxne
       THEN UNCHANGED <<rxVars, pc, unread, boot_rx>>
       ELSE /\ boot_rx' = (boot_rx \/ pc \in BootPc)
            /\ IF s_uart_rx_buf_data.num_bytes >= s_uart_rx_buf_data.buf_sz
               THEN /\ s_uart_rx_buf_data' = IrqRxFull(s_uart_rx_buf_data)
                    /\ UNCHANGED <<s_uart_rx_buf, pc, unread>>
               ELSE IF InBuf(s_uart_rx_buf_data.buf_ptr_cur)
               THEN /\ s_uart_rx_buf' =
                           IrqRxStore(s_uart_rx_buf, s_uart_rx_buf_data, data)
                    /\ s_uart_rx_buf_data' = IrqRxAdvance(s_uart_rx_buf_data)
                    /\ unread' = Append(unread, data)
                    /\ UNCHANGED pc
               ELSE \/ /\ s_uart_rx_buf_data' = IrqRxAdvance(s_uart_rx_buf_data)
                       /\ unread' = Append(unread, data)
                       /\ UNCHANGED <<s_uart_rx_buf, pc>>
                    \/ /\ pc' = "fault"
                       /\ UNCHANGED <<rxVars, unread>>
    /\ UNCHANGED <<irq_enabled, readLocals, ret, writeLocals, txe, sent,
                   taken, pre, call_full>>

Irq == \E it_rxne \in BOOLEAN, data \in Byte : USART1_IRQHandler(it_rxne, data)

\* ------------------------------------------------------ uart_irq_buf_reset

\* variant: the interrupt is left enabled
uart_irq_buf_reset_280_open ==
    /\ pc = "rst_280"
    /\ pc' = "rst_282"
    /\ UNCHANGED <<rxVars, irq_enabled, readLocals, ret, writeLocals, txe,
                   sent, hist>>

uart_irq_buf_reset_280 ==
    /\ pc = "rst_280"
    /\ irq_enabled' = FALSE
    /\ pc' = "rst_282"
    /\ UNCHANGED <<rxVars, readLocals, ret, writeLocals, txe, sent, hist>>

\* num_bytes = 0 discards the unread data
uart_irq_buf_reset_282 ==
    /\ pc = "rst_282"
    /\ s_uart_rx_buf_data' = [s_uart_rx_buf_data EXCEPT !.num_bytes = 0]
    /\ unread' = <<>>
    /\ pc' = "rst_283"
    /\ UNCHANGED <<s_uart_rx_buf, irq_enabled, readLocals, ret, writeLocals,
                   txe, sent, taken, pre, call_full, drained, boot_rx>>

uart_irq_buf_reset_283 ==
    /\ pc = "rst_283"
    /\ s_uart_rx_buf_data' =
           [s_uart_rx_buf_data EXCEPT !.buf_ptr_cur = s_uart_rx_buf_data.buf_ptr_start]
    /\ pc' = "rst_284"
    /\ UNCHANGED <<s_uart_rx_buf, irq_enabled, readLocals, ret, writeLocals,
                   txe, sent, hist>>

\* variant: the full flag is left set
uart_irq_buf_reset_284_keeps ==
    /\ pc = "rst_284"
    /\ pc' = "rst_285"
    /\ UNCHANGED <<rxVars, irq_enabled, readLocals, ret, writeLocals, txe,
                   sent, hist>>

uart_irq_buf_reset_284 ==
    /\ pc = "rst_284"
    /\ s_uart_rx_buf_data' = [s_uart_rx_buf_data EXCEPT !.error_rx_full = FALSE]
    /\ pc' = "rst_285"
    /\ UNCHANGED <<s_uart_rx_buf, irq_enabled, readLocals, ret, writeLocals,
                   txe, sent, hist>>

uart_irq_buf_reset_285 ==
    /\ pc = "rst_285"
    /\ s_uart_rx_buf_data' = [s_uart_rx_buf_data EXCEPT !.error_overrun = FALSE]
    /\ pc' = "rst_287"
    /\ UNCHANGED <<s_uart_rx_buf, irq_enabled, readLocals, ret, writeLocals,
                   txe, sent, hist>>

\* NVIC_EnableIRQ, then return to the caller
uart_irq_buf_reset_287 ==
    /\ pc = "rst_287"
    /\ irq_enabled' = TRUE
    /\ pc' = rst_ret
    /\ UNCHANGED <<rxVars, readLocals, ret, writeLocals, txe, sent, hist>>

uart_irq_buf_reset ==
    \/ uart_irq_buf_reset_280
    \/ uart_irq_buf_reset_282
    \/ uart_irq_buf_reset_283
    \/ uart_irq_buf_reset_284
    \/ uart_irq_buf_reset_285
    \/ uart_irq_buf_reset_287

\* -------------------------------------------------------------- uart_read

\* variant: the request is not limited to what the buffer holds
BytesRet_unclamped(req, num) == req

\* bytes_ret of lines 125-140
BytesRet(req, num) == IF req <= num THEN req ELSE num

\* variant: the else branch keeps the old count
BytesRem_keeps(req, num) == IF req <= num THEN (num - req) % U16 ELSE num

\* bytes_rem of lines 125-140
BytesRem(req, num) == IF req <= num THEN (num - req) % U16 ELSE 0

\* memcpy( buf, src, n ): the caller's buffer afterwards
Memcpy(out, mem, src, n) ==
    [k \in DOMAIN out |-> IF k < n THEN Load(mem, src + k) ELSE out[k]]

\* variant: the source is off by one byte
Memmove_off(mem, to, from, n) ==
    [k \in DOMAIN mem |->
        IF BufBase + k >= to /\ BufBase + k < to + n
        THEN Load(mem, from + (BufBase + k - to) - 1)
        ELSE mem[k]]

\* memmove( to, from, n ) inside s_uart_rx_buf: the array afterwards
Memmove(mem, to, from, n) ==
    [k \in DOMAIN mem |->
        IF BufBase + k >= to /\ BufBase + k < to + n
        THEN Load(mem, from + (BufBase + k - to))
        ELSE mem[k]]

\* variant: the cursor is left where it was
ReadCursor_stays(d) == d.buf_ptr_cur

\* the write cursor uart_read leaves behind (line 159)
ReadCursor(d) == d.buf_ptr_start

\* main calls uart_read( dst, n ); uart_init has returned
uart_read_call(n) ==
    /\ pc = "idle"
    /\ bytes_req' = n
    /\ dst' = NoDst
    /\ call_full' = s_uart_rx_buf_data.error_rx_full
    /\ pc' = "r_90"
    /\ UNCHANGED <<rxVars, irq_enabled, bytes_ret, bytes_rem, rst_ret, ret,
                   writeLocals, txe, sent, unread, taken, pre, drained,
                   boot_rx>>

uart_read_90 ==
    /\ pc = "r_90"
    /\ IF s_uart_rx_buf_data.error_rx_full = TRUE
       THEN pc' = "rst_280" /\ rst_ret' = "r_100"
       ELSE pc' = "r_103" /\ UNCHANGED rst_ret
    /\ UNCHANGED <<rxVars, irq_enabled, bytes_req, bytes_ret, bytes_rem, dst,
                   ret, writeLocals, txe, sent, hist>>

uart_read_103 ==
    /\ pc = "r_103"
    /\ IF s_uart_rx_buf_data.error_overrun = TRUE
       THEN pc' = "rst_280" /\ rst_ret' = "r_113"
       ELSE pc' = "r_120" /\ UNCHANGED rst_ret
    /\ UNCHANGED <<rxVars, irq_enabled, bytes_req, bytes_ret, bytes_rem, dst,
                   ret, writeLocals, txe, sent, hist>>

\* return ERR_UART_RX_BUF_FULL (line 100) or ERR_UART_OVERRUN (line 113)
uart_read_err ==
    /\ pc \in {"r_100", "r_113"}
    /\ ret' = IF pc = "r_100" THEN ERR_UART_RX_BUF_FULL ELSE ERR_UART_OVERRUN
    /\ pc' = "r_done"
    /\ UNCHANGED <<rxVars, irq_enabled, readLocals, writeLocals, txe, sent,
                   hist>>

\* NVIC_DisableIRQ: the critical section begins
uart_read_120 ==
    /\ pc = "r_120"
    /\ irq_enabled' = FALSE
    /\ pre' = [buf |-> s_uart_rx_buf, num |-> s_uart_rx_buf_data.num_bytes,
               cur |-> s_uart_rx_buf_data.buf_ptr_cur, drained |-> drained]
    /\ pc' = "r_125"
    /\ UNCHANGED <<rxVars, readLocals, ret, writeLocals, txe, sent, unread,
                   taken, call_full, drained, boot_rx>>

uart_read_125 ==
    /\ pc = "r_125"
    /\ bytes_ret' = BytesRet(bytes_req, s_uart_rx_buf_data.num_bytes)
    /\ bytes_rem' = BytesRem(bytes_req, s_uart_rx_buf_data.num_bytes)
    /\ pc' = "r_145"
    /\ UNCHANGED <<rxVars, irq_enabled, bytes_req, dst, rst_ret, ret,
                   writeLocals, txe, sent, hist>>

uart_read_145 ==
    /\ pc = "r_145"
    /\ dst' = Memcpy(dst, s_uart_rx_buf, s_uart_rx_buf_data.buf_ptr_start,
                     bytes_ret)
    /\ pc' = "r_154"
    /\ UNCHANGED <<rxVars, irq_enabled, bytes_req, bytes_ret, bytes_rem,
                   rst_ret, ret, writeLocals, txe, sent, hist>>

uart_read_154 ==
    /\ pc = "r_154"
    /\ s_uart_rx_buf' = Memmove(s_uart_rx_buf, s_uart_rx_buf_data.buf_ptr_start,
                                s_uart_rx_buf_data.buf_ptr_start + bytes_ret,
                                bytes_rem)
    /\ pc' = "r_159"
    /\ UNCHANGED <<s_uart_rx_buf_data, irq_enabled, readLocals, ret,
                   writeLocals, txe, sent, hist>>

uart_read_159 ==
    /\ pc = "r_159"
    /\ s_uart_rx_buf_data' =
           [s_uart_rx_buf_data EXCEPT !.buf_ptr_cur = ReadCursor(s_uart_rx_buf_data)]
    /\ pc' = "r_160"
    /\ UNCHANGED <<s_uart_rx_buf, irq_enabled, readLocals, ret, writeLocals,
                   txe, sent, hist>>

uart_read_160 ==
    /\ pc = "r_160"
    /\ s_uart_rx_buf_data' = [s_uart_rx_buf_data EXCEPT !.num_bytes = bytes_rem]
    /\ drained' = (bytes_req >= pre.num)
    /\ taken' = SubSeq(unread, 1, Min(bytes_ret, Len(unread)))
    /\ unread' = SubSeq(unread, Min(bytes_ret, Len(unread)) + 1, Len(unread))
    /\ pc' = "r_165"
    /\ UNCHANGED <<s_uart_rx_buf, irq_enabled, readLocals, ret, writeLocals,
                   txe, sent, pre, call_full, boot_rx>>

\* variant: the interrupt is left disabled
uart_read_165_closed ==
    /\ pc = "r_165"
    /\ pc' = "r_170"
    /\ UNCHANGED <<rxVars, irq_enabled, readLocals, ret, writeLocals, txe,
                   sent, hist>>

\* NVIC_EnableIRQ: the critical section ends
uart_read_165 ==
    /\ pc = "r_165"
    /\ irq_enabled' = TRUE
    /\ pc' = "r_170"
    /\ UNCHANGED <<rxVars, readLocals, ret, writeLocals, txe, sent, hist>>

\* return bytes_ret: the caller now holds dst[ 0 .. bytes_ret )
uart_read_170 ==
    /\ pc = "r_170"
    /\ ret' = bytes_ret
    /\ pc' = "r_done"
    /\ UNCHANGED <<rxVars, irq_enabled, readLocals, writeLocals, txe, sent,
                   hist>>

uart_read ==
    \/ \E n \in 0 .. MaxReq : uart_read_call(n)
    \/ uart_read_90
    \/ uart_read_103
    \/ uart_read_err
    \/ uart_read_120
    \/ uart_read_125
    \/ uart_read_145
    \/ uart_read_154
    \/ uart_read_159
    \/ uart_read_160
    \/ uart_read_165
    \/ uart_read_170

\* ---------------------------------------------------------- transmit path

\* buffers main passes to uart_write
WriteBufs == UNION {[1 .. k -> Byte] : k \in 0 .. MaxLen}

\* strings main passes to uart_write_msg: the memory up to and including a
\* terminating NUL
Msgs == {m \in UNION {[1 .. k -> Chars] : k \in 1 .. MaxLen + 1} : m[Len(m)] = 0}

RECURSIVE StrlenFrom(_, _)
StrlenFrom(m, k) == IF m[k] = 0 THEN k - 1 ELSE StrlenFrom(m, k + 1)

\* strlen( msg )
Strlen(m) == StrlenFrom(m, 1)

\* the two bytes uart_write_msg sends after the string (lines 223, 224)
MsgEnding == <<LF, CR>>

\* main calls uart_write( b, n ) with n bytes available in b
uart_write_call(b, n) ==
    /\ pc = "idle"
    /\ wbuf' = b
    /\ wbytes' = n
    /\ wi' = 0
    /\ w_ret' = "w_done"
    /\ sent' = <<>>
    /\ pc' = "w_190"
    /\ UNCHANGED <<rxVars, irq_enabled, readLocals, ret, wb_byte, wb_ret, txe,
                   hist>>

\* the loop test i < bytes; the body calls uart_write_byte( buf[ i ] )
uart_write_190 ==
    /\ pc = "w_190"
    /\ IF wi < wbytes
       THEN /\ wb_byte' = wbuf[wi + 1]
            /\ wb_ret' = "w_inc"
            /\ pc' = "wb_207"
       ELSE /\ pc' = "w_198"
            /\ UNCHANGED <<wb_byte, wb_ret>>
    /\ UNCHANGED <<rxVars, irq_enabled, readLocals, ret, wbuf, wbytes, wi,
                   w_ret, txe, sent, hist>>

\* i++
uart_write_inc ==
    /\ pc = "w_inc"
    /\ wi' = (wi + 1) % U16
    /\ pc' = "w_190"
    /\ UNCHANGED <<rxVars, irq_enabled, readLocals, ret, wbuf, wbytes, w_ret,
                   wb_byte, wb_ret, txe, sent, hist>>

\* return bytes
uart_write_198 ==
    /\ pc = "w_198"
    /\ ret' = wbytes
    /\ pc' = w_ret
    /\ UNCHANGED <<rxVars, irq_enabled, readLocals, writeLocals, txe, sent,
                   hist>>

uart_write ==
    \/ \E b \in WriteBufs : \E n \in 0 .. Len(b) : uart_write_call(b, n)
    \/ uart_write_190
    \/ uart_write_inc
    \/ uart_write_198

\* variant: the loop does not wait
TxReady_nowait(flag) == TRUE

\* variant: the loop exits while the flag is still RESET
TxReady_inverted(flag) == flag = FALSE

\* the condition on which the spin loop of uart_wait_tx_ready exits
TxReady(flag) == flag # FALSE

\* while( USART_GetFlagStatus( USART1, USART_FLAG_TXE ) == RESET ): the
\* loop is left once the flag is set, and spins (no step) until then
uart_wait_tx_ready ==
    /\ pc = "wb_207"
    /\ TxReady(txe)
    /\ pc' = "wb_212"
    /\ UNCHANGED <<rxVars, irq_enabled, readLocals, ret, writeLocals, txe,
                   sent, hist>>

\* USART_SendData( USART1, byte ): the data register takes the byte and TXE
\* drops until the hardware has moved it on
uart_write_byte_212 ==
    /\ pc = "wb_212"
    /\ sent' = Append(sent, wb_byte)
    /\ txe' = FALSE
    /\ pc' = wb_ret
    /\ UNCHANGED <<rxVars, irq_enabled, readLocals, ret, writeLocals, hist>>

uart_write_byte ==
    \/ uart_wait_tx_ready
    \/ uart_write_byte_212

\* hardware: the transmit data register becomes empty
HwTxEmpty ==
    /\ txe = FALSE
    /\ txe' = TRUE
    /\ UNCHANGED <<rxVars, irq_enabled, pc, readLocals, ret, writeLocals,
                   sent, hist>>

\* main calls uart_write_msg( m )
uart_write_msg_call(m) ==
    /\ pc = "idle"
    /\ wbuf' = m
    /\ sent' = <<>>
    /\ pc' = "m_222"
    /\ UNCHANGED <<rxVars, irq_enabled, readLocals, ret, wbytes, wi, w_ret,
                   wb_byte, wb_ret, txe, hist>>

\* uart_write( msg, strlen( msg ) ); the count is converted to uint16_t
uart_write_msg_222 ==
    /\ pc = "m_222"
    /\ wbytes' = Strlen(wbuf) % U16
    /\ wi' = 0
    /\ w_ret' = "m_223"
    /\ pc' = "w_190"
    /\ UNCHANGED <<rxVars, irq_enabled, readLocals, ret, wbuf, wb_byte,
                   wb_ret, txe, sent, hist>>

uart_write_msg_223 ==
    /\ pc = "m_223"
    /\ wb_byte' = MsgEnding[1]
    /\ wb_ret' = "m_224"
    /\ pc' = "wb_207"
    /\ UNCHANGED <<rxVars, irq_enabled, readLocals, ret, wbuf, wbytes, wi,
                   w_ret, txe, sent, hist>>

uart_write_msg_224 ==
    /\ pc = "m_224"
    /\ wb_byte' = MsgEnding[2]
    /\ wb_ret' = "m_done"
    /\ pc' = "wb_207"
    /\ UNCHANGED <<rxVars, irq_enabled, readLocals, ret, wbuf, wbytes, wi,
                   w_ret, txe, sent, hist>>

uart_write_msg ==
    \/ \E m \in Msgs : uart_write_msg_call(m)
    \/ uart_write_msg_222
    \/ uart_write_msg_223
    \/ uart_write_msg_224

\* ------------------------------------------------------------------- main

\* the caller takes the result of the call that just returned and goes on
Return ==
    /\ pc \in {"r_done", "w_done", "m_done"}
    /\ pc' = "idle"
    /\ bytes_req' = 0 /\ bytes_ret' = 0 /\ bytes_rem' = 0
    /\ dst' = NoDst
    /\ rst_ret' = "none"
    /\ ret' = 0
    /\ wbuf' = <<>> /\ wbytes' = 0 /\ wi' = 0 /\ w_ret' = "none"
    /\ wb_byte' = 0 /\ wb_ret' = "none"
    /\ sent' = <<>>
    /\ taken' = <<>>
    /\ pre' = NoPre
    /\ call_full' = FALSE
    /\ UNCHANGED <<rxVars, irq_enabled, txe, unread, drained, boot_rx>>

\* The receive side: boot, the handler, and main calling uart_read.
Next ==
    \/ uart_init
    \/ Irq
    \/ uart_read
    \/ uart_irq_buf_reset
    \/ Return

Spec == Init /\ [][Next]_vars

\* The transmit side: boot, the handler (which stays enabled while main
\* transmits), and main calling uart_write and uart_write_msg.
NextTx ==
    \/ uart_init
    \/ Irq
    \/ uart_write
    \/ uart_write_byte
    \/ uart_write_msg
    \/ HwTxEmpty
    \/ Return

SpecTx == Init /\ [][NextTx]_vars

\* the steps of a running uart_read call: its own statements and those of
\* the uart_irq_buf_reset it calls
ReadStep ==
    \/ uart_read_90
    \/ uart_read_103
    \/ uart_read_err
    \/ uart_read_120
    \/ uart_read_125
    \/ uart_read_145
    \/ uart_read_154
    \/ uart_read_159
    \/ uart_read_160
    \/ uart_read_165
    \/ uart_read_170
    \/ uart_irq_buf_reset

\* The receive side with the processor executing the running call: the
\* handler returns after each invocation, so main is never held up for ever
\* by the interrupt.
SpecFair == Spec /\ WF_vars(ReadStep)

\* the steps of a running uart_write call: its loop and the uart_write_byte
\* calls it makes
TxStep ==
    \/ uart_write_190
    \/ uart_write_inc
    \/ uart_write_198
    \/ uart_write_byte

\* The transmit side with the processor executing the running call: the
\* handler returns after each invocation, so main is never held up for ever
\* by the interrupt.  Nothing is assumed about the transmit hardware.
SpecTxFair == SpecTx /\ WF_vars(TxStep)

\* ----------------------------------------------------------------- typing

TypeOK ==
    /\ s_uart_rx_buf \in [0 .. UART_RX_BUF_SZ - 1 -> Byte]
    /\ s_uart_rx_buf_data.num_bytes \in 0 .. U16 - 1
    /\ s_uart_rx_buf_data.buf_sz \in {0, UART_RX_BUF_SZ}
    /\ irq_enabled \in BOOLEAN
    /\ txe \in BOOLEAN
    /\ dst \in [0 .. MaxReq - 1 -> Byte \cup {Unset}]
    /\ Len(unread) = s_uart_rx_buf_data.num_bytes

\* ----------------------------------------------------------------- claims

\* uart_read has returned a byte count (not an error code)
ReadOk == pc = "r_done" /\ ret \notin {ERR_UART_RX_BUF_FULL, ERR_UART_OVERRUN}

\* the bytes the caller received from the read that just returned
Returned == [k \in 1 .. Min(ret, MaxReq) |-> dst[k - 1]]

\* offset of the write cursor from the start of the buffer
CursorOffset ==
    s_uart_rx_buf_data.buf_ptr_cur - s_uart_rx_buf_data.buf_ptr_start

\* C1: when no byte was taken during boot, the bytes a successful uart_read
\* returns are the oldest bytes the handler accepted that no earlier read
\* returned and no reset discarded, in arrival order: the returned bytes,
\* concatenated in call order, are a prefix of the accepted bytes.
C1_ReadsArePrefixOfAccepted ==
    (ReadOk /\ ~boot_rx) => Returned = taken

\* C2: num_bytes never exceeds buf_sz, and a byte that arrives while
\* num_bytes = buf_sz sets error_rx_full and leaves the buffer contents,
\* num_bytes and the cursor as they were.
C2_CapacityBound ==
    /\ [](s_uart_rx_buf_data.num_bytes <= s_uart_rx_buf_data.buf_sz)
    /\ [][ \A b \in Byte :
             (USART1_IRQHandler(TRUE, b)
                /\ s_uart_rx_buf_data.num_bytes = s_uart_rx_buf_data.buf_sz)
             => /\ s_uart_rx_buf_data'.error_rx_full
                /\ s_uart_rx_buf' = s_uart_rx_buf
                /\ s_uart_rx_buf_data'.num_bytes = s_uart_rx_buf_data.num_bytes
                /\ s_uart_rx_buf_data'.buf_ptr_cur = s_uart_rx_buf_data.buf_ptr_cur
         ]_vars

\* C2 witness: after boot the buffer is full and a further byte has set the
\* full flag.
C2_Witness ==
    /\ pc = "idle"
    /\ s_uart_rx_buf_data.error_rx_full
    /\ s_uart_rx_buf_data.num_bytes = UART_RX_BUF_SZ
    /\ Len(unread) = UART_RX_BUF_SZ

C5_Drain ==
    /\ (pc = "r_165" /\ bytes_req >= pre.num)
          => (bytes_ret = pre.num /\ s_uart_rx_buf_data.num_bytes = 0)
    /\ (ReadOk /\ bytes_req >= pre.num) => ret = pre.num
    /\ (ReadOk /\ pre.drained) => ret = 0

\* C5 witness: a read asking for bytes, begun after a draining read with no
\* handler invocation in between, has returned.
C5_Witness ==
    /\ ReadOk
    /\ pre.drained
    /\ bytes_req > 0
    /\ ret = 0

\* C6: a uart_read on the normal path returns min(bytes_req, num_bytes); the
\* caller's buffer holds the first that many bytes of the receive buffer, in
\* order, and nothing else was written to it; num_bytes has decreased by
\* exactly that many.
C6_ReadCopiesMin ==
    /\ pc \in {"r_145", "r_154", "r_159", "r_160"}
          => bytes_ret = Min(bytes_req, pre.num)
    /\ pc = "r_165"
          => /\ bytes_ret = Min(bytes_req, pre.num)
             /\ \A k \in 0 .. MaxReq - 1 :
                    dst[k] = IF k < bytes_ret THEN pre.buf[k] ELSE Unset
             /\ s_uart_rx_buf_data.num_bytes = pre.num - bytes_ret
    /\ ReadOk => ret = Min(bytes_req, pre.num)

\* C6 witness: a read of fewer bytes than the buffer held has returned.
C6_Witness ==
    /\ ReadOk
    /\ ret >= 1
    /\ ret = bytes_req
    /\ pre.num > ret

\* C7: when uart_write( buf, n ) has returned, the hardware was handed
\* exactly buf[0 .. n) in order and the result is n; while it runs the bytes
\* handed over so far are buf[0 .. i) or buf[0 .. i]; and every hand-over
\* happens with the transmit-ready flag set.
C7_WriteSendsAll ==
    /\ [](pc = "w_done" => (sent = SubSeq(wbuf, 1, wbytes) /\ ret = wbytes))
    /\ []((w_ret = "w_done" /\ pc \in {"w_190", "wb_207", "wb_212", "w_198"})
             => sent = SubSeq(wbuf, 1, wi))
    /\ []((w_ret = "w_done" /\ pc = "w_inc") => sent = SubSeq(wbuf, 1, wi + 1))
    /\ [][Len(sent') > Len(sent) => txe]_vars

\* C7 witness: uart_write of two different bytes has returned 2.
C7_Witness ==
    /\ pc = "w_done"
    /\ wbytes = 2
    /\ wbuf[1] # wbuf[2]
    /\ sent = wbuf
    /\ ret = 2

\* C8: when uart_write_msg has returned, the hardware was handed the
\* characters of the string before its terminator, in order, followed by
\* carriage return (0x0D) and then line feed (0x0A).
C8_MsgEndsCrLf ==
    pc = "m_done" => sent = SubSeq(wbuf, 1, Strlen(wbuf)) \o <<CR, LF>>

C10_CursorAtOccupied ==
    (irq_enabled /\ pc \notin BootPc /\ pc # "fault" /\ ~boot_rx)
       => CursorOffset = s_uart_rx_buf_data.num_bytes

\* the pc values inside uart_irq_buf_reset after its NVIC_DisableIRQ
ResetPc == {"rst_282", "rst_283", "rst_284", "rst_285", "rst_287"}

\* the pc values inside the critical section of uart_read
CriticalPc == {"r_125", "r_145", "r_154", "r_159", "r_160", "r_165"}

\* a step of the main program (the handler leaves pc alone unless it faults)
MainStep == pc' # pc /\ pc' # "fault"

\* C11: when no byte was taken during boot, in every state after boot in
\* which the interrupt is enabled, offsets [0, num_bytes) of the buffer hold
\* exactly the accepted bytes not yet read or reset away, in arrival order.
C11_BufferHoldsUnread ==
    (irq_enabled /\ pc \notin BootPc /\ pc # "fault" /\ ~boot_rx)
       => /\ Len(unread) = s_uart_rx_buf_data.num_bytes
          /\ \A k \in 0 .. s_uart_rx_buf_data.num_bytes - 1 :
                 s_uart_rx_buf[k] = unread[k + 1]

\* C12: after boot, a handler invocation that finds an error flag set
\* accepts no byte: the buffer, num_bytes and the cursor stay as they were.
C12_NoAcceptWhileError ==
    [][ \A b \in Byte :
          (/\ USART1_IRQHandler(TRUE, b)
           /\ pc \notin BootPc
           /\ (s_uart_rx_buf_data.error_rx_full
                 \/ s_uart_rx_buf_data.error_overrun))
          => /\ s_uart_rx_buf' = s_uart_rx_buf
             /\ s_uart_rx_buf_data'.num_bytes = s_uart_rx_buf_data.num_bytes
             /\ s_uart_rx_buf_data'.buf_ptr_cur = s_uart_rx_buf_data.buf_ptr_cur
      ]_vars

\* C13: every step of the main program (uart_init, uart_read,
\* uart_irq_buf_reset) that changes the buffer or its bookkeeping record is
\* taken with the USART1 interrupt disabled.
C13_MutationsInCriticalSection ==
    [][(MainStep /\ rxVars' # rxVars) => ~irq_enabled]_vars

\* C14: while uart_irq_buf_reset is between its NVIC_DisableIRQ and its
\* NVIC_EnableIRQ the interrupt is disabled, so the handler cannot run on a
\* partly reset record; when it re-enables the interrupt all four fields
\* are reset; and no step of the reset changes buf_sz, buf_ptr_start or the
\* buffer contents.
C14_ResetAtomic ==
    /\ [](pc \in ResetPc => ~irq_enabled)
    /\ [](pc \in ResetPc => ~ENABLED Irq)
    /\ [](pc = "rst_287"
            => /\ s_uart_rx_buf_data.num_bytes = 0
               /\ s_uart_rx_buf_data.buf_ptr_cur = s_uart_rx_buf_data.buf_ptr_start
               /\ ~s_uart_rx_buf_data.error_rx_full
               /\ ~s_uart_rx_buf_data.error_overrun)
    /\ [][(pc \in ResetPc \cup {"rst_280"})
            => /\ s_uart_rx_buf_data'.buf_sz = s_uart_rx_buf_data.buf_sz
               /\ s_uart_rx_buf_data'.buf_ptr_start = s_uart_rx_buf_data.buf_ptr_start
               /\ (MainStep => s_uart_rx_buf' = s_uart_rx_buf)
         ]_vars

\* C14 witness: the reset has cleared num_bytes and the cursor but not yet
\* the full flag, with the interrupt disabled.
C14_Witness ==
    /\ pc = "rst_284"
    /\ ~irq_enabled
    /\ s_uart_rx_buf_data.num_bytes = 0
    /\ s_uart_rx_buf_data.error_rx_full

\* C15: a handler invocation with a byte pending and num_bytes < buf_sz
\* stores the byte at the write cursor, advances cursor and num_bytes by
\* one and changes no other buffer byte and no error flag; an invocation
\* with no byte pending changes nothing.
C15_HandlerFrame ==
    [][ /\ \A b \in Byte :
             (/\ USART1_IRQHandler(TRUE, b)
              /\ s_uart_rx_buf_data.num_bytes < s_uart_rx_buf_data.buf_sz)
             => /\ InBuf(s_uart_rx_buf_data.buf_ptr_cur)
                /\ s_uart_rx_buf' =
                      [s_uart_rx_buf EXCEPT
                          ![s_uart_rx_buf_data.buf_ptr_cur - BufBase] = b]
                /\ s_uart_rx_buf_data' =
                      [s_uart_rx_buf_data EXCEPT
                          !.buf_ptr_cur = s_uart_rx_buf_data.buf_ptr_cur + 1,
                          !.num_bytes = s_uart_rx_buf_data.num_bytes + 1]
        /\ USART1_IRQHandler(FALSE, 0) => UNCHANGED <<rxVars, pc, irq_enabled>>
      ]_vars

\* C16: a step that clears error_rx_full is the clearing step of
\* uart_irq_buf_reset (line 284), called by uart_read; no other step, in
\* particular no handler invocation and no byte-returning read, clears it.
C16_FullFlagSticky ==
    [][(s_uart_rx_buf_data.error_rx_full /\ ~s_uart_rx_buf_data'.error_rx_full)
         => (pc = "rst_284" /\ rst_ret \in {"r_100", "r_113"})]_vars

\* a uart_write call is in progress
InWrite ==
    \/ pc \in {"w_190", "w_inc", "w_198"}
    \/ pc \in {"wb_207", "wb_212"} /\ wb_ret = "w_inc"

\* uart_write waits in the spin loop of uart_wait_tx_ready
Spinning == pc = "wb_207" /\ wb_ret = "w_inc" /\ ~txe

\* C17: while uart_write is in progress, and in particular while it spins
\* on transmit-ready, the USART1 interrupt is enabled and the handler can
\* run, and a handler invocation leaves the write where it is; while the
\* transmit register is not ready no step of main leaves the spin loop, so
\* the call does not return; and if the hardware always eventually reports
\* transmit-ready, every uart_write call returns to its caller.
C17_WriteSpins ==
    /\ [](InWrite => (irq_enabled /\ ENABLED Irq))
    /\ [][(Spinning /\ Irq) => (Spinning' /\ UNCHANGED writeLocals)]_vars
    /\ [][Spinning => (pc' = "wb_207" /\ sent' = sent)]_vars
    /\ [](Spinning => ~ENABLED TxStep)
    /\ WF_vars(HwTxEmpty) => (InWrite ~> (pc \in {"w_done", "m_223"}))

\* C17 witness: uart_write has sent its first byte and spins before the
\* second, with a received byte in the buffer.
C17_Witness ==
    /\ Spinning
    /\ wi = 1
    /\ Len(sent) = 1
    /\ s_uart_rx_buf_data.num_bytes >= 1

\* C18 as stated: in every state after uart_init has returned, the write
\* cursor is at an offset of at most num_bytes from buf_ptr_start.
C18_CursorAtMostOccupied ==
    (pc \notin BootPc /\ pc # "fault")
       => CursorOffset <= s_uart_rx_buf_data.num_bytes

\* C18: in every state after uart_init has returned in which the USART1
\* interrupt is enabled, the write cursor is at an offset of at most
\* num_bytes from buf_ptr_start, which is the buffer's address, so whenever
\* the handler would store a byte (num_bytes < buf_sz) the cursor points
\* into s_uart_rx_buf; with the interrupt disabled the cursor still never
\* leaves [buf_ptr_start, buf_ptr_start + buf_sz].
C18_CursorInBounds ==
    (pc \notin BootPc /\ pc # "fault")
       => /\ s_uart_rx_buf_data.buf_ptr_start = BufBase
          /\ CursorOffset >= 0
          /\ CursorOffset <= s_uart_rx_buf_data.buf_sz
          /\ s_uart_rx_buf_data.num_bytes <= UART_RX_BUF_SZ
          /\ irq_enabled =>
                /\ CursorOffset <= s_uart_rx_buf_data.num_bytes
                /\ (s_uart_rx_buf_data.num_bytes < s_uart_rx_buf_data.buf_sz
                      => InBuf(s_uart_rx_buf_data.buf_ptr_cur))

\* C18 witness: after a partial read the handler has stored a byte and the
\* cursor is strictly below num_bytes.
C18_Witness ==
    /\ pc = "idle"
    /\ ~boot_rx
    /\ CursorOffset >= 1
    /\ CursorOffset < s_uart_rx_buf_data.num_bytes

\* a uart_read call is in progress
InRead ==
    pc \in {"r_90", "r_103", "r_100", "r_113", "r_120", "r_170", "rst_280"}
             \cup CriticalPc \cup ResetPc

\* C19: every uart_read call reaches its return; at the return, whether of
\* an error code or of a byte count, the USART1 interrupt is enabled; after
\* uart_init the interrupt is disabled only between lines 120 and 165 of
\* uart_read and between lines 280 and 287 of uart_irq_buf_reset; and
\* outside these sections the handler can run, so a byte held back during a
\* section, which the call always leaves, is taken after it.
C19_ReadTerminates ==
    /\ InRead ~> (pc = "r_done")
    /\ [](pc = "r_done" => (irq_enabled /\ ENABLED Irq))
    /\ []((pc \notin BootPc /\ pc # "fault" /\ ~irq_enabled)
            => pc \in CriticalPc \cup ResetPc)
    /\ [](pc \in {"r_90", "r_103", "r_100", "r_113", "r_120", "r_170",
                  "rst_280"} => (irq_enabled /\ ENABLED Irq))

\* C19 witness (error path): a read has returned ERR_UART_RX_BUF_FULL after
\* the reset, with the interrupt enabled again.
C19_Witness ==
    /\ pc = "r_done"
    /\ rst_ret = "r_100"
    /\ irq_enabled
    /\ s_uart_rx_buf_data.num_bytes = 0
    /\ ~s_uart_rx_buf_data.error_rx_full

\* C20: in every state in which the handler can run and would store a byte
\* (num_bytes < buf_sz), the write cursor points into s_uart_rx_buf.
C20_NoStoreThroughNull ==
    (irq_enabled /\ pc # "fault"
       /\ s_uart_rx_buf_data.num_bytes < s_uart_rx_buf_data.buf_sz)
       => InBuf(s_uart_rx_buf_data.buf_ptr_cur)

====
